---- MODULE Spec2Model ----
(***************************************************************************)
(* The coap!/parse! JSON-like literal translator of src/mynewt/macros.rs.  *)
(*                                                                         *)
(* parse! is a token-tree muncher: every rule rewrites the configuration   *)
(*   @enc @object object (key) (rest) (copy)     or                        *)
(*   @enc @object object [key] (value) rest                                *)
(* into the next one and splices encoder calls into the produced program.  *)
(* The model is that rewriting system read as the recursive-descent        *)
(* translator it encodes: one action per rule of the @object muncher, the  *)
(* encoder operations recorded in the order in which the produced program  *)
(* performs them, and a rule that expands to an invocation no rule accepts *)
(* (parse!() or unexpected_token!(tok)) ending the run in a grammar error. *)
(* The "copy" argument always equals "rest" and is not modelled apart.     *)
(***************************************************************************)
EXTENDS Integers, Sequences, FiniteSets, TLC

\* ------------------------------------------------------------------ bounds

\* Most entries of a top-level object literal, most elements of a top-level
\* array literal.
MaxEntries == 2

\* The sensor values bound to sample identifiers range over 0..MaxSampleVal.
MaxSampleVal == 1

\* The capacities of the caller's buffer considered are 0..MaxCapacity, counted
\* in encoder writes the buffer has room for.
MaxCapacity == 2

\* The integer written for every sample by coap_set_int_val / coap_item_int_val.
PlaceholderInt == 1234

\* ------------------------------------------------------------------ tokens

\* A token tree.  t: kind; s: spelling; n: the integer of an integer literal,
\* or the int_val of the sensor value an identifier is bound to; body: the
\* token trees inside a delimited group.
Tok(t, s, n, body) == [t |-> t, s |-> s, n |-> n, body |-> body]

Colon == Tok("colon", ":", 0, <<>>)
Comma == Tok("comma", ",", 0, <<>>)
Ident(name) == Tok("ident", name, 0, <<>>)
Sample(name, v) == Tok("ident", name, v, <<>>)
IntLit(n) == Tok("int", "", n, <<>>)
StrLit(s) == Tok("str", s, 0, <<>>)
Keyword(s) == Tok("kw", s, 0, <<>>)
Paren(body) == Tok("paren", "", 0, body)
Bracket(body) == Tok("bracket", "", 0, body)
Brace(body) == Tok("brace", "", 0, body)

NoTok == Tok("none", "", 0, <<>>)

\* The key string a sensor value bound to identifier `name` exposes.
SensorKey(name) == IF name = "s1" THEN "temp" ELSE IF name = "s2" THEN "humid" ELSE name

\* ------------------------------------------------------------------ inputs

\* The entries object literals are built from: [kind, toks].
Chunk(kind, toks) == [kind |-> kind, toks |-> toks]

FieldChunks ==
    { Chunk("field", <<Ident("a"), Colon, IntLit(1)>>),
      Chunk("field", <<Ident("b"), Colon, StrLit("x")>>) }

KeywordChunks ==
    { Chunk("kwfield", <<Ident("a"), Colon, Keyword(k)>>) : k \in {"null", "true", "false"} }

SampleArray == Bracket(<<Sample("s1", 0), Comma, Sample("s2", 1)>>)

ArrayChunks ==
    { Chunk("arrayfield", <<Ident("a"), Colon, SampleArray>>),
      Chunk("arrayfield", <<Ident("a"), Colon, Bracket(<<>>)>>) }

MapChunks ==
    { Chunk("mapfield", <<Ident("a"), Colon, Brace(<<Ident("b"), Colon, IntLit(1), Comma>>)>>),
      Chunk("mapfield", <<Ident("a"), Colon, Brace(<<>>)>>) }

SampleChunks ==
    { Chunk("sample", <<Sample("s1", v)>>) : v \in 0..MaxSampleVal }

ParenChunks ==
    { Chunk("parenfield", <<Paren(<<Ident("a")>>), Colon, IntLit(1)>>) }

MalformedChunks ==
    { Chunk("nested_error", <<Ident("a"), Colon, Brace(<<Ident("b"), Colon>>)>>),
      Chunk("dangling_colon", <<Ident("a"), Colon>>),
      Chunk("misplaced_colon", <<Colon>>),
      Chunk("empty", <<>>) }

Chunks ==
    FieldChunks \cup KeywordChunks \cup ArrayChunks \cup MapChunks \cup SampleChunks
        \cup ParenChunks \cup MalformedChunks

\* An entry is a chunk, followed by a comma or not.
Entries ==
    { e \in [chunk : Chunks, comma : BOOLEAN] : e.chunk.toks # <<>> \/ e.comma }

Literals == UNION { [1..n -> Entries] : n \in 0..MaxEntries }

EntryToks(e) == IF e.comma THEN Append(e.chunk.toks, Comma) ELSE e.chunk.toks

RECURSIVE Flatten(_)
Flatten(es) == IF es = <<>> THEN <<>> ELSE EntryToks(Head(es)) \o Flatten(Tail(es))

\* The elements array literals are built from; the "empty" chunk followed by a
\* comma is a comma with no element before it.
ElemChunks ==
    { Chunk("elem", <<t>>) :
        t \in { Sample("s1", 0), IntLit(1), Keyword("null"), Keyword("true"),
                Keyword("false"), Bracket(<<>>), Brace(<<>>) } }
        \cup { Chunk("empty", <<>>) }

Elements ==
    { e \in [chunk : ElemChunks, comma : BOOLEAN] : e.chunk.toks # <<>> \/ e.comma }

ArrayLiterals == UNION { [1..n -> Elements] : n \in 0..MaxEntries }

Encodings == {"none", "json", "cbor"}

\* ------------------------------------------------------ encoder operations

\* The value an encoder operation carries.
Val(ty, s, n) == [ty |-> ty, s |-> s, n |-> n]
NoVal == Val("none", "", 0)
IntVal(n) == Val("int", "", n)
StrVal(s) == Val("str", s, 0)

\* One encoder operation: Start*/End* name their frame by (parent, key),
\* Set* name the object written to, the member key and the value.
Op(op, parent, key, val) ==
    [op |-> op, parent |-> parent, key |-> key, val |-> val, penc |-> "", cenc |-> "",
     len |-> ""]

\* A container call of the CBOR backend,
\*   cbor_encoder_create_map/_array(&mut penc, &mut cenc, CborIndefiniteLength)  or
\*   cbor_encoder_close_container(&mut penc, &mut cenc):
\* penc and cenc are the encoder variables the call names as parent and child,
\* len is the length a create call passes.
CborOp(op, parent, key, penc, cenc) ==
    [op |-> op, parent |-> parent, key |-> key, val |-> NoVal, penc |-> penc,
     cenc |-> cenc, len |-> ""]
CborCreate(op, parent, key, penc, cenc) ==
    [op |-> op, parent |-> parent, key |-> key, val |-> NoVal, penc |-> penc,
     cenc |-> cenc, len |-> "CborIndefiniteLength"]

\* concat_idents!(a, b): the identifier a##b.
concat_idents(a, b) == a \o b

\* The outcome of expanding a piece of the program: the operations it performs
\* up to its end or up to the first grammar error, and the value it denotes.
NoErr == [rule |-> "", kind |-> "", tok |-> NoTok]
Err(rule, kind, tok) == [rule |-> rule, kind |-> kind, tok |-> tok]
Res(ok, ops, val, err) == [ok |-> ok, ops |-> ops, val |-> val, err |-> err]
Emit(ops) == Res(TRUE, ops, NoVal, NoErr)
Value(val) == Res(TRUE, <<>>, val, NoErr)
Fail(rule, kind, tok) == Res(FALSE, <<>>, NoVal, Err(rule, kind, tok))

\* a; b
Sequenced(a, b) == IF a.ok THEN Res(b.ok, a.ops \o b.ops, b.val, b.err) ELSE a

\* r1; r2 (each of r1, r2 is evaluated once)
Then(r1, r2) == CHOOSE r \in { Sequenced(a, b) : a \in {r1}, b \in {r2} } : TRUE

\* unexpected_token!(tok): the macro has the one rule (), so any token is
\* rejected with "no rules expected the token `tok`".
unexpected_token(rule, tok) == Fail(rule, "unexpected_token", tok)

\* parse!(): no rule of parse! accepts the empty invocation.
parse_empty(rule) == Fail(rule, "end_of_invocation", NoTok)

\* ---------------------------------------------------- the expr fragment

From(seq, i) == SubSeq(seq, i, Len(seq))

CanBeginExpr(tok) == tok.t \in {"ident", "int", "str", "kw", "paren", "bracket", "brace"}

\* Call arguments and index brackets that continue an expression; an index
\* holds an expression.
RECURSIVE PostfixLen(_)
PostfixLen(toks) ==
    IF toks # <<>> /\ \/ Head(toks).t = "paren"
                      \/ Head(toks).t = "bracket" /\ Head(toks).body # <<>>
    THEN 1 + PostfixLen(Tail(toks))
    ELSE 0

\* A path followed by braces is a struct expression.
StructLen(toks) ==
    IF Len(toks) >= 2 /\ toks[1].t = "ident" /\ toks[2].t = "brace" THEN 1 ELSE 0

\* How many leading tokens an $x:expr matcher takes (0: no expression starts
\* here).  Over the tokens of this model an expression is one primary token
\* (a path with its braces) followed by call or index groups; a following colon
\* ends it.
ExprLen(toks) ==
    IF toks = <<>> \/ ~CanBeginExpr(Head(toks)) THEN 0
    ELSE 1 + StructLen(toks) + PostfixLen(From(toks, 2 + StructLen(toks)))

\* All of toks is exactly one expression.
IsExpr(toks) == toks # <<>> /\ ExprLen(toks) = Len(toks)

\* The first token a matcher `$x:expr` followed by the end of the invocation
\* does not accept.
ExprRejects(toks) ==
    IF ExprLen(toks) < Len(toks) THEN toks[ExprLen(toks) + 1] ELSE NoTok

\* The value an expression denotes.
RECURSIVE ExprVal(_)
ExprVal(toks) ==
    IF Len(toks) # 1 THEN Val("call", "", 0)
    ELSE LET tok == toks[1] IN
         CASE tok.t = "int" -> IntVal(tok.n)
           [] tok.t = "str" -> StrVal(tok.s)
           [] tok.t = "paren" -> ExprVal(tok.body)
           [] OTHER -> Val("ident", tok.s, tok.n)

\* $val0.key of a sensor value expression.
val_key(toks) ==
    IF Len(toks) = 1 /\ toks[1].t = "ident" THEN SensorKey(toks[1].s) ELSE "?"

\* ------------------------------------------- JSON and CBOR encoder macros

json_rep_start_root_object == <<Op("StartRootObject", "", "root", NoVal)>>
json_rep_end_root_object == <<Op("EndRootObject", "", "root", NoVal)>>
json_rep_set_array(object, key) == <<Op("StartArray", object, key, NoVal)>>
json_rep_close_array(object, key) == <<Op("EndArray", object, key, NoVal)>>
json_rep_object_array_start_item(key) == <<Op("StartObjectItem", key, key, NoVal)>>
json_rep_object_array_end_item(key) == <<Op("EndObjectItem", key, key, NoVal)>>

\* $value is used inside stringify! only: the value expression is not expanded.
json_rep_set_int(object, key, value) == Emit(<<Op("SetInt", object, key, value.val)>>)
json_rep_set_text_string(object, key, value) ==
    Emit(<<Op("SetTextString", object, key, value.val)>>)

oc_rep_start_root_object ==
    <<CborCreate("StartRootObject", "", "root", "g_encoder", "root_map")>>
oc_rep_end_root_object ==
    <<CborOp("EndRootObject", "", "root", "g_encoder", "root_map")>>
\* Mutant: the map of an item is created with a length of 2 members.
oc_rep_start_object_fixed_length(parent, key, parent_suffix) ==
    <<[CborCreate("StartObjectItem", parent, key, parent, concat_idents(key, "_map"))
          EXCEPT !.len = "2"]>>
\* cbor_encoder_create_map(&mut $parent, &mut key##_map, CborIndefiniteLength)
oc_rep_start_object(parent, key, parent_suffix) ==
    <<CborCreate("StartObjectItem", parent, key, parent, concat_idents(key, "_map"))>>
\* cbor_encoder_close_container(&mut parent##parent_suffix, &mut key##_map)
oc_rep_end_object(parent, key, parent_suffix) ==
    <<CborOp("EndObjectItem", parent, key, concat_idents(parent, parent_suffix),
             concat_idents(key, "_map"))>>
\* cbor_encoder_create_array(&mut parent##parent_suffix, &mut key##_array, ..)
oc_rep_start_array(parent, key, parent_suffix) ==
    <<CborCreate("StartArray", parent, key, concat_idents(parent, parent_suffix),
             concat_idents(key, "_array"))>>
\* cbor_encoder_close_container(&mut $parent, &mut parent##parent_suffix)
oc_rep_end_array(parent, key, parent_suffix) ==
    <<CborOp("EndArray", parent, key, parent, concat_idents(parent, parent_suffix))>>
oc_rep_set_array(object, key) == oc_rep_start_array(object, key, "_map")
oc_rep_close_array(object, key) == oc_rep_end_array(object, key, "_map")
oc_rep_object_array_start_item(key) == oc_rep_start_object(key, key, "_array")
oc_rep_object_array_end_item(key) == oc_rep_end_object(key, key, "_array")

\* cbor_encode_int(.., $value): $value is expanded once, then written.
oc_rep_set_int(object, key, value) ==
    Then(value, Emit(<<Op("SetInt", object, key, value.val)>>))

\* cbor_encode_text_string(.., $value.as_ptr(), $value.len()): $value is
\* expanded twice, then written.
oc_rep_set_text_string(object, key, value) ==
    Then(value, Then(value, Emit(<<Op("SetTextString", object, key, value.val)>>)))

\* ----------------------------------------------------------- CoAP macros

\* The operations of coap_root before and after $children0.
coap_root_start(enc) ==
    IF enc = "cbor" THEN oc_rep_start_root_object ELSE json_rep_start_root_object
coap_root_end(enc) ==
    IF enc = "cbor" THEN oc_rep_end_root_object ELSE json_rep_end_root_object

\* The operations of coap_array before and after $children0.
coap_array_start(enc, object0, key0) ==
    IF enc = "cbor" THEN oc_rep_set_array(object0, key0) ELSE json_rep_set_array(object0, key0)
coap_array_end(enc, object0, key0) ==
    IF enc = "cbor" THEN oc_rep_close_array(object0, key0)
    ELSE json_rep_close_array(object0, key0)

coap_item_start(enc, array0) ==
    IF enc = "cbor" THEN oc_rep_object_array_start_item(array0)
    ELSE json_rep_object_array_start_item(array0)
\* Mutant: the item is never closed.
coap_item_end_missing(enc, array0) == <<>>
coap_item_end(enc, array0) ==
    IF enc = "cbor" THEN oc_rep_object_array_end_item(array0)
    ELSE json_rep_object_array_end_item(array0)
coap_item(enc, array0, children0) ==
    Then(Emit(coap_item_start(enc, array0)),
         Then(children0, Emit(coap_item_end(enc, array0))))

\* coap_item_str!(@enc parent, key, val) with key: the key tokens, val: the
\* expansion of the value expression.  No rule accepts key tokens that are
\* not one expression.
coap_item_str(enc, parent, key, val) ==
    IF ~IsExpr(key) THEN Fail("coap_item_str", "no_rule", ExprRejects(key))
    ELSE IF enc = "cbor"
    THEN coap_item("cbor", parent,
             Then(oc_rep_set_text_string(parent, "key", Value(ExprVal(key))),
                  oc_rep_set_text_string(parent, "value", val)))
    ELSE coap_item("json", parent,
             Then(json_rep_set_text_string(parent, "key", Value(ExprVal(key))),
                  json_rep_set_text_string(parent, "value", val)))

\* Mutant: the "value" member is written before the "key" member.
coap_item_int_value_first(enc, array0, key0, value0) ==
    coap_item("json", array0,
        Then(json_rep_set_int(array0, "value", value0),
             json_rep_set_text_string(array0, "key", key0)))

coap_item_int(enc, array0, key0, value0) ==
    coap_item("json", array0,
        Then(json_rep_set_text_string(array0, "key", key0),
             json_rep_set_int(array0, "value", value0)))

\* coap_set_int_val!(@enc parent0, val0) with val0: the tokens of the sensor
\* value expression.
coap_set_int_val(enc, parent0, val0) ==
    IF ~IsExpr(val0) THEN Fail("coap_set_int_val", "no_rule", ExprRejects(val0))
    ELSE IF enc = "cbor"
    THEN oc_rep_set_int(parent0, val_key(val0), Value(IntVal(PlaceholderInt)))
    ELSE json_rep_set_int(parent0, val_key(val0), Value(IntVal(PlaceholderInt)))

coap_item_int_val(enc, parent0, val0) ==
    IF ~IsExpr(val0) THEN Fail("coap_item_int_val", "no_rule", ExprRejects(val0))
    ELSE coap_item_int(enc, parent0, Value(StrVal(val_key(val0))),
                       Value(IntVal(PlaceholderInt)))

\* ------------------------------------------------- the @object muncher

\* A configuration of the muncher.  form "paren" is
\*   @enc @object object (key) (rest) (rest)
\* and form "bracket" is
\*   @enc @object object [key] (parse!(@enc value)) rest
Cfg(enc, object, form, key, value, rest) ==
    [enc |-> enc, object |-> object, form |-> form, key |-> key, value |-> value,
     rest |-> rest]

\* The outcome of one rule: "cont" with the next configuration, "done", or
\* "error"; res holds the operations the rule's expansion performs.
Cont(c, res) == [status |-> IF res.ok THEN "cont" ELSE "error", c |-> c, res |-> res]
Finish(c) == [status |-> "done", c |-> c, res |-> Emit(<<>>)]
Reject(c, res) == [status |-> "error", c |-> c, res |-> res]

\* Continue with the rest of the object: parse!(@enc @object object () (rest) (rest))
NextEntry(c, rest) == Cfg(c.enc, c.object, "paren", <<>>, <<>>, rest)

\* [key] (parse!(@enc value)) rest
WithValue(c, value, rest) == Cfg(c.enc, c.object, "bracket", c.key, value, rest)

RECURSIVE parse(_, _)

\* The rules in source order; a configuration is rewritten by the first rule
\* whose pattern matches it.
ObjectRules ==
    << "done", "insert_none", "insert", "unexpected", "insert_last", "null", "true",
       "false", "array", "map", "expr_comma", "expr_last", "missing_value",
       "missing_colon", "misplaced_colon", "sample_none", "sample_json", "sample_cbor",
       "paren_key", "munch" >>

\* A key is being munched and the remaining tokens start with `: <token>`.
ColonThen(c) ==
    /\ c.form = "paren" /\ c.key # <<>>
    /\ Len(c.rest) >= 2 /\ c.rest[1] = Colon

IsKw(s, tok) == tok = Keyword(s)

\* toks starts with an expression of n tokens that a comma follows.
ExprThenComma(toks, n) == n > 0 /\ Len(toks) > n /\ toks[n + 1] = Comma

Matches(rule, c) ==
    CASE rule = "done" -> c.form = "paren" /\ c.key = <<>> /\ c.rest = <<>>
      [] rule = "insert_none" ->
            c.form = "bracket" /\ c.enc = "none" /\ c.rest # <<>> /\ Head(c.rest) = Comma
      [] rule = "insert" -> c.form = "bracket" /\ c.rest # <<>> /\ Head(c.rest) = Comma
      [] rule = "unexpected" -> c.form = "bracket" /\ c.rest # <<>>
      [] rule = "insert_last" -> c.form = "bracket" /\ c.rest = <<>>
      [] rule = "null" -> ColonThen(c) /\ IsKw("null", c.rest[2])
      [] rule = "true" -> ColonThen(c) /\ IsKw("true", c.rest[2])
      [] rule = "false" -> ColonThen(c) /\ IsKw("false", c.rest[2])
      [] rule = "array" -> ColonThen(c) /\ c.rest[2].t = "bracket"
      [] rule = "map" -> ColonThen(c) /\ c.rest[2].t = "brace"
      [] rule = "expr_comma" ->
            /\ c.form = "paren" /\ c.key # <<>> /\ c.rest # <<>> /\ Head(c.rest) = Colon
            /\ ExprThenComma(Tail(c.rest), ExprLen(Tail(c.rest)))
      [] rule = "expr_last" ->
            /\ c.form = "paren" /\ c.key # <<>> /\ c.rest # <<>> /\ Head(c.rest) = Colon
            /\ IsExpr(Tail(c.rest))
      [] rule = "missing_value" -> c.form = "paren" /\ c.key # <<>> /\ c.rest = <<Colon>>
      [] rule = "missing_colon" -> c.form = "paren" /\ c.key # <<>> /\ c.rest = <<>>
      [] rule = "misplaced_colon" ->
            c.form = "paren" /\ c.key = <<>> /\ c.rest # <<>> /\ Head(c.rest) = Colon
      [] rule = "sample_none" ->
            c.form = "paren" /\ c.enc = "none" /\ c.rest # <<>> /\ Head(c.rest) = Comma
      [] rule = "sample_json" ->
            c.form = "paren" /\ c.enc = "json" /\ c.rest # <<>> /\ Head(c.rest) = Comma
      [] rule = "sample_cbor" ->
            c.form = "paren" /\ c.enc = "cbor" /\ c.rest # <<>> /\ Head(c.rest) = Comma
      [] rule = "paren_key" ->
            /\ c.form = "paren" /\ c.key = <<>> /\ Len(c.rest) >= 2
            /\ c.rest[1].t = "paren" /\ IsExpr(c.rest[1].body) /\ c.rest[2] = Colon
      [] rule = "munch" -> c.form = "paren" /\ c.rest # <<>>
      [] OTHER -> FALSE

FirstRule(hits) ==
    IF hits = {} THEN "no_rule"
    ELSE ObjectRules[CHOOSE i \in hits : \A j \in hits : i <= j]

RuleOf(c) == FirstRule({ i \in 1..Len(ObjectRules) : Matches(ObjectRules[i], c) })

\* Done.
object_done(c) == Finish(c)

\* No Encoding: Insert the current entry followed by trailing comma.
object_insert_none(c) == Cont(NextEntry(c, Tail(c.rest)), Emit(<<>>))

\* JSON and CBOR Encoding: Insert the current entry followed by trailing comma.
object_insert(c) ==
    Cont(NextEntry(c, Tail(c.rest)),
         coap_item_str(c.enc, c.object, c.key, parse(c.enc, c.value)))

\* Current entry followed by unexpected token.
object_unexpected(c) == Reject(c, unexpected_token("unexpected", Head(c.rest)))

\* Insert the last entry without trailing comma.
object_insert_last(c) == Finish(c)

\* Next value is `null`, `true`, `false`, an array or a map.
object_value(c) == Cont(WithValue(c, <<c.rest[2]>>, From(c.rest, 3)), Emit(<<>>))

\* Next value is an expression followed by comma.
object_expr_comma(c) ==
    Cont(WithValue(c, SubSeq(c.rest, 2, ExprLen(Tail(c.rest)) + 1),
                   From(c.rest, ExprLen(Tail(c.rest)) + 2)),
         Emit(<<>>))

\* Last value is an expression with no trailing comma.
object_expr_last(c) == Cont(WithValue(c, Tail(c.rest), <<>>), Emit(<<>>))

\* Mutant: a missing value ends the object like a last entry.
object_missing_value_accepted(c) == Finish(c)

\* Missing value for last entry.
object_missing_value(c) == Reject(c, parse_empty("missing_value"))

\* Mutant: a key with no colon and no value ends the object like a last entry.
object_missing_colon_accepted(c) == Finish(c)

\* Missing colon and value for last entry.
object_missing_colon(c) == Reject(c, parse_empty("missing_colon"))

\* Mutant: a colon met with an empty key is munched into the key.
object_misplaced_colon_munched(c) ==
    Cont(Cfg(c.enc, c.object, "paren", Append(c.key, Head(c.rest)), <<>>, Tail(c.rest)),
         Emit(<<>>))

\* Misplaced colon.
object_misplaced_colon(c) == Reject(c, unexpected_token("misplaced_colon", Head(c.rest)))

\* No Encoding: Found a key followed by a comma.
object_sample_none(c) == Cont(NextEntry(c, Tail(c.rest)), Emit(<<>>))

\* JSON Encoding: Found a key followed by a comma.
object_sample_json(c) ==
    Cont(NextEntry(c, Tail(c.rest)), coap_item_int_val("json", c.object, c.key))

\* CBOR Encoding: Found a key followed by a comma.
object_sample_cbor(c) ==
    Cont(NextEntry(c, Tail(c.rest)), coap_set_int_val("cbor", c.object, c.key))

\* Mutant: the parenthesized key is taken as the key and left in the input.
object_paren_key_rereads(c) ==
    Cont(Cfg(c.enc, c.object, "paren", <<Head(c.rest)>>, <<>>, c.rest), Emit(<<>>))

\* Key is fully parenthesized.
object_paren_key(c) ==
    Cont(Cfg(c.enc, c.object, "paren", <<Head(c.rest)>>, <<>>, Tail(c.rest)), Emit(<<>>))

\* Munch a token into the current key.
object_munch(c) ==
    Cont(Cfg(c.enc, c.object, "paren", Append(c.key, Head(c.rest)), <<>>, Tail(c.rest)),
         Emit(<<>>))

RuleStep(rule, c) ==
    CASE rule = "done" -> object_done(c)
      [] rule = "insert_none" -> object_insert_none(c)
      [] rule = "insert" -> object_insert(c)
      [] rule = "unexpected" -> object_unexpected(c)
      [] rule = "insert_last" -> object_insert_last(c)
      [] rule \in {"null", "true", "false", "array", "map"} -> object_value(c)
      [] rule = "expr_comma" -> object_expr_comma(c)
      [] rule = "expr_last" -> object_expr_last(c)
      [] rule = "missing_value" -> object_missing_value(c)
      [] rule = "missing_colon" -> object_missing_colon(c)
      [] rule = "misplaced_colon" -> object_misplaced_colon(c)
      [] rule = "sample_none" -> object_sample_none(c)
      [] rule = "sample_json" -> object_sample_json(c)
      [] rule = "sample_cbor" -> object_sample_cbor(c)
      [] rule = "paren_key" -> object_paren_key(c)
      [] rule = "munch" -> object_munch(c)
      [] OTHER -> Reject(c, Fail("no_rule", "no_rule", NoTok))

ObjectStep(c) == CHOOSE step \in { RuleStep(rule, c) : rule \in {RuleOf(c)} } : TRUE

\* The whole expansion of parse!(@enc @object ...) from configuration c.
RECURSIVE parse_object(_)
AfterStep(step) ==
    IF step.status = "cont" THEN Then(step.res, parse_object(step.c)) ELSE step.res
parse_object(c) == CHOOSE r \in { AfterStep(step) : step \in {ObjectStep(c)} } : TRUE

\* -------------------------------------------------- the @array muncher

\* A configuration @enc @array [elems] rest: elems are the value tokens of the
\* elements taken so far, tc tells that the last of them is followed by a
\* comma inside the brackets.
\* [$($elems:expr,)*] matches it:
ElemsComma(elems, tc) == elems = <<>> \/ tc
\* [$($elems:expr),*] matches it:
ElemsSep(elems, tc) == elems = <<>> \/ ~tc

\* parse_vector![elems]: the element expressions are expanded in order.
RECURSIVE parse_vector(_, _)
parse_vector(enc, elems) ==
    IF elems = <<>> THEN Emit(<<>>)
    ELSE Then(parse(enc, Head(elems)), parse_vector(enc, Tail(elems)))

\* The rules in source order: done, next element is null/true/false/array/map,
\* expression followed by comma, last expression, comma after the most recent
\* element, unexpected token; a configuration no rule matches is rejected.
RECURSIVE parse_array(_, _, _, _)
ArrayStep(enc, elems, tc, rest, n) ==
    IF rest = <<>> THEN parse_vector(enc, elems)
    ELSE IF /\ ElemsComma(elems, tc)
            /\ \/ Head(rest).t \in {"bracket", "brace"}
               \/ \E k \in {"null", "true", "false"} : Head(rest) = Keyword(k)
    THEN parse_array(enc, Append(elems, <<Head(rest)>>), FALSE, Tail(rest))
    ELSE IF ElemsComma(elems, tc) /\ ExprThenComma(rest, n)
    THEN parse_array(enc, Append(elems, SubSeq(rest, 1, n)), TRUE, From(rest, n + 2))
    ELSE IF ElemsComma(elems, tc) /\ n > 0 /\ Len(rest) = n
    THEN parse_array(enc, Append(elems, rest), FALSE, <<>>)
    ELSE IF ElemsSep(elems, tc) /\ Head(rest) = Comma
    THEN parse_array(enc, elems, TRUE, Tail(rest))
    ELSE IF ElemsSep(elems, tc)
    THEN unexpected_token("array_unexpected", Head(rest))
    ELSE Fail("array", "no_rule", Head(rest))
parse_array(enc, elems, tc, rest) == ArrayStep(enc, elems, tc, rest, ExprLen(rest))

\* The same rules, one rewriting at a time.  A configuration
\*   @enc @array [elems] rest
ACfg(elems, tc, rest) == [elems |-> elems, tc |-> tc, rest |-> rest]

ArrayRules ==
    << "array_done_comma", "array_done", "array_null", "array_true", "array_false",
       "array_array", "array_map", "array_expr_comma", "array_expr_last", "array_comma",
       "array_unexpected" >>

ArrayMatches(rule, a) ==
    CASE rule = "array_done_comma" -> ElemsComma(a.elems, a.tc) /\ a.rest = <<>>
      [] rule = "array_done" -> ElemsSep(a.elems, a.tc) /\ a.rest = <<>>
      [] rule = "array_null" ->
            ElemsComma(a.elems, a.tc) /\ a.rest # <<>> /\ IsKw("null", Head(a.rest))
      [] rule = "array_true" ->
            ElemsComma(a.elems, a.tc) /\ a.rest # <<>> /\ IsKw("true", Head(a.rest))
      [] rule = "array_false" ->
            ElemsComma(a.elems, a.tc) /\ a.rest # <<>> /\ IsKw("false", Head(a.rest))
      [] rule = "array_array" ->
            ElemsComma(a.elems, a.tc) /\ a.rest # <<>> /\ Head(a.rest).t = "bracket"
      [] rule = "array_map" ->
            ElemsComma(a.elems, a.tc) /\ a.rest # <<>> /\ Head(a.rest).t = "brace"
      [] rule = "array_expr_comma" ->
            ElemsComma(a.elems, a.tc) /\ ExprThenComma(a.rest, ExprLen(a.rest))
      [] rule = "array_expr_last" -> ElemsComma(a.elems, a.tc) /\ IsExpr(a.rest)
      [] rule = "array_comma" ->
            ElemsSep(a.elems, a.tc) /\ a.rest # <<>> /\ Head(a.rest) = Comma
      [] rule = "array_unexpected" -> ElemsSep(a.elems, a.tc) /\ a.rest # <<>>
      [] OTHER -> FALSE

FirstArrayRule(hits) ==
    IF hits = {} THEN "no_rule"
    ELSE ArrayRules[CHOOSE i \in hits : \A j \in hits : i <= j]

ArrayRuleOf(a) == FirstArrayRule({ i \in 1..Len(ArrayRules) : ArrayMatches(ArrayRules[i], a) })

\* Done with or without trailing comma: parse_vector![elems].
array_done(enc, a) == parse_vector(enc, a.elems)

\* Next element is `null`, `true`, `false`, an array or a map.
array_value(a) == ACfg(Append(a.elems, <<Head(a.rest)>>), FALSE, Tail(a.rest))

\* Next element is an expression followed by comma.
array_expr_comma(a) ==
    ACfg(Append(a.elems, SubSeq(a.rest, 1, ExprLen(a.rest))), TRUE,
         From(a.rest, ExprLen(a.rest) + 2))

\* Last element is an expression with no trailing comma.
array_expr_last(a) == ACfg(Append(a.elems, a.rest), FALSE, <<>>)

\* Mutant: the comma after an element forgets the elements taken so far.
array_comma_forgets(a) == ACfg(<<>>, TRUE, Tail(a.rest))

\* Comma after the most recent element.
array_comma(a) == ACfg(a.elems, TRUE, Tail(a.rest))

\* Unexpected token after most recent element.
array_unexpected(a) == unexpected_token("array_unexpected", Head(a.rest))

\* No rule of parse! accepts the configuration.
array_no_rule(a) == Fail("array", "no_rule", Head(a.rest))

\* ------------------------------------------------ the main implementation

\* The name the entries of the top-level object are added to.
ObjectName(enc) == IF enc = "json" THEN "values" ELSE "root"

\* The operations of the root rules before and after the entries.
\* Mutant: the Json root does not open the "values" array.
root_start_no_array(enc) == IF enc = "none" THEN <<>> ELSE coap_root_start(enc)
root_start(enc) ==
    CASE enc = "json" -> coap_root_start("json") \o coap_array_start("json", "root", "values")
      [] enc = "cbor" -> coap_root_start("cbor")
      [] OTHER -> <<>>
\* Mutant: the Json root is closed before its "values" array.
root_end_swapped(enc) ==
    CASE enc = "json" -> coap_root_end("json") \o coap_array_end("json", "root", "values")
      [] enc = "cbor" -> coap_root_end("cbor")
      [] OTHER -> <<>>
root_end(enc) ==
    CASE enc = "json" -> coap_array_end("json", "root", "values") \o coap_root_end("json")
      [] enc = "cbor" -> coap_root_end("cbor")
      [] OTHER -> <<>>

\* parse!(@enc value): the expansion of a value and the value it denotes.
parse_tok(enc, value, tok) ==
    CASE Len(value) = 1 /\ tok.t = "kw" -> Value(StrVal(tok.s))
      [] Len(value) = 1 /\ tok.t = "bracket" /\ tok.body = <<>> -> Value(StrVal("[ TODO ]"))
      [] Len(value) = 1 /\ tok.t = "bracket" /\ tok.body # <<>> ->
            Then(parse_array(enc, <<>>, FALSE, tok.body), Value(StrVal("[ TODO ]")))
      [] Len(value) = 1 /\ tok.t = "brace" /\ tok.body = <<>> -> Value(StrVal("{ TODO }"))
      [] Len(value) = 1 /\ tok.t = "brace" /\ tok.body # <<>> ->
            Then(Emit(root_start(enc)),
                 Then(parse_object(NextEntry([enc |-> enc, object |-> ObjectName(enc)],
                                             tok.body)),
                      Then(Emit(root_end(enc)), Value(StrVal("root")))))
      [] OTHER -> Value(ExprVal(value))
parse(enc, value) == parse_tok(enc, value, Head(value))

\* coap!(@enc { tokens }): the whole translation of an object literal.
coap(enc, tokens) == parse(enc, <<Brace(tokens)>>)

\* ------------------------------------------------------ the state machine

VARIABLES
    enc,      \* the encoding selected: coap!(@none ..), coap!(@json ..), coap!(@cbor ..)
    top,      \* the literal handed to coap! is an "object" {..} or an "array" [..]
    literal,  \* the entries of the object literal, the elements of the array literal
    pc,       \* "start", "object" / "array" (inside that muncher), "done", "error"
    object,   \* $object: the name the entries are added to
    form,     \* the form of the configuration, "paren" or "bracket"
    key,      \* the key accumulator
    value,    \* the tokens of the value of the current entry ("bracket" form)
    rest,     \* the tokens not yet consumed
    ops,      \* the encoder operations performed so far
    err,      \* the grammar error that ended the translation
    mark,     \* how many operations had been performed when the current entry began
    elems,    \* @array: the value tokens of the elements taken so far
    tc        \* @array: the last of elems is followed by a comma inside the brackets

vars == <<enc, top, literal, pc, object, form, key, value, rest, ops, err, mark, elems, tc>>

\* The tokens between the braces or brackets of the literal.
Tokens == Flatten(literal)

Cur == Cfg(enc, object, form, key, value, rest)

ACur == ACfg(elems, tc, rest)

Init ==
    /\ enc \in Encodings
    /\ \/ top = "object" /\ literal \in Literals
       \/ top = "array" /\ literal \in ArrayLiterals
    /\ pc = "start"
    /\ object = ""
    /\ form = "paren"
    /\ key = <<>>
    /\ value = <<>>
    /\ rest = <<>>
    /\ ops = <<>>
    /\ err = NoErr
    /\ mark = 0
    /\ elems = <<>>
    /\ tc = FALSE

\* parse!(@enc {}): the empty object expands to no operation at all.
EmptyObject ==
    /\ top = "object" /\ pc = "start" /\ Tokens = <<>>
    /\ pc' = "done"
    /\ UNCHANGED <<enc, top, literal, object, form, key, value, rest, ops, err, mark,
                   elems, tc>>

\* parse!(@enc { tokens }): open the root and enter the @object muncher.
Root ==
    /\ top = "object" /\ pc = "start" /\ Tokens # <<>>
    /\ pc' = "object"
    /\ object' = ObjectName(enc)
    /\ rest' = Tokens
    /\ ops' = root_start(enc)
    /\ mark' = Len(ops')
    /\ UNCHANGED <<enc, top, literal, form, key, value, err, elems, tc>>

\* Mutant: the operations of a rule land before or after those emitted so far.
Commit_unordered(step) ==
    /\ pc' = IF step.status = "cont" THEN "object" ELSE step.status
    /\ ops' \in { ops \o step.res.ops \o (IF step.status = "done" THEN root_end(enc) ELSE <<>>),
                  step.res.ops \o ops \o (IF step.status = "done" THEN root_end(enc) ELSE <<>>) }
    /\ err' = step.res.err
    /\ IF step.status = "cont"
       THEN /\ form' = step.c.form /\ key' = step.c.key
            /\ value' = step.c.value /\ rest' = step.c.rest
            /\ mark' = IF step.c.form = "paren" /\ step.c.key = <<>>
                       THEN Len(ops') ELSE mark
       ELSE UNCHANGED <<form, key, value, rest, mark>>
    /\ UNCHANGED <<enc, top, literal, object, elems, tc>>

\* The configuration is rewritten as a rule says; after the last rule the
\* closing operations of the root rule follow.
CommitStep(step) ==
    /\ pc' = IF step.status = "cont" THEN "object" ELSE step.status
    /\ ops' = ops \o step.res.ops \o (IF step.status = "done" THEN root_end(enc) ELSE <<>>)
    /\ err' = step.res.err
    /\ IF step.status = "cont"
       THEN /\ form' = step.c.form /\ key' = step.c.key
            /\ value' = step.c.value /\ rest' = step.c.rest
            /\ mark' = IF step.c.form = "paren" /\ step.c.key = <<>>
                       THEN Len(ops') ELSE mark
       ELSE UNCHANGED <<form, key, value, rest, mark>>
    /\ UNCHANGED <<enc, top, literal, object, elems, tc>>

Commit(step) == \E st \in {step} : CommitStep(st)

\* The rule that rewrites the current configuration.
Rule == IF pc = "object" THEN RuleOf(Cur) ELSE ""

Done ==
    /\ Rule = "done"
    /\ Commit(object_done(Cur))

InsertNone ==
    /\ Rule = "insert_none"
    /\ Commit(object_insert_none(Cur))

Insert ==
    /\ Rule = "insert"
    /\ Commit(object_insert(Cur))

Unexpected ==
    /\ Rule = "unexpected"
    /\ Commit(object_unexpected(Cur))

InsertLast ==
    /\ Rule = "insert_last"
    /\ Commit(object_insert_last(Cur))

ValueNull ==
    /\ Rule = "null"
    /\ Commit(object_value(Cur))

ValueTrue ==
    /\ Rule = "true"
    /\ Commit(object_value(Cur))

ValueFalse ==
    /\ Rule = "false"
    /\ Commit(object_value(Cur))

ValueArray ==
    /\ Rule = "array"
    /\ Commit(object_value(Cur))

ValueMap ==
    /\ Rule = "map"
    /\ Commit(object_value(Cur))

ExprComma ==
    /\ Rule = "expr_comma"
    /\ Commit(object_expr_comma(Cur))

ExprLast ==
    /\ Rule = "expr_last"
    /\ Commit(object_expr_last(Cur))

MissingValue ==
    /\ Rule = "missing_value"
    /\ Commit(object_missing_value(Cur))

MissingColon ==
    /\ Rule = "missing_colon"
    /\ Commit(object_missing_colon(Cur))

MisplacedColon ==
    /\ Rule = "misplaced_colon"
    /\ Commit(object_misplaced_colon(Cur))

SampleNone ==
    /\ Rule = "sample_none"
    /\ Commit(object_sample_none(Cur))

SampleJson ==
    /\ Rule = "sample_json"
    /\ Commit(object_sample_json(Cur))

SampleCbor ==
    /\ Rule = "sample_cbor"
    /\ Commit(object_sample_cbor(Cur))

ParenKey ==
    /\ Rule = "paren_key"
    /\ Commit(object_paren_key(Cur))

Munch ==
    /\ Rule = "munch"
    /\ Commit(object_munch(Cur))

\* parse!(@enc []): the empty array expands to no operation at all.
EmptyArray ==
    /\ top = "array" /\ pc = "start" /\ Tokens = <<>>
    /\ pc' = "done"
    /\ UNCHANGED <<enc, top, literal, object, form, key, value, rest, ops, err, mark,
                   elems, tc>>

\* parse!(@enc [ tokens ]): enter the @array muncher with no element taken.
ArrayEnter ==
    /\ top = "array" /\ pc = "start" /\ Tokens # <<>>
    /\ pc' = "array"
    /\ rest' = Tokens
    /\ UNCHANGED <<enc, top, literal, object, form, key, value, ops, err, mark, elems, tc>>

\* The array configuration is rewritten as a rule says.
ArrayCommit(a) ==
    /\ pc' = "array"
    /\ elems' = a.elems /\ tc' = a.tc /\ rest' = a.rest
    /\ UNCHANGED <<enc, top, literal, object, form, key, value, ops, err, mark>>

\* The muncher ends with the expansion res.
ArrayEnd(res) ==
    /\ pc' = IF res.ok THEN "done" ELSE "error"
    /\ ops' = ops \o res.ops
    /\ err' = res.err
    /\ UNCHANGED <<enc, top, literal, object, form, key, value, rest, mark, elems, tc>>

\* The rule that rewrites the current array configuration.
ArrayRule == IF pc = "array" THEN ArrayRuleOf(ACur) ELSE ""

ArrayDoneComma ==
    /\ ArrayRule = "array_done_comma"
    /\ ArrayEnd(array_done(enc, ACur))

ArrayDone ==
    /\ ArrayRule = "array_done"
    /\ ArrayEnd(array_done(enc, ACur))

ArrayNull ==
    /\ ArrayRule = "array_null"
    /\ ArrayCommit(array_value(ACur))

ArrayTrue ==
    /\ ArrayRule = "array_true"
    /\ ArrayCommit(array_value(ACur))

ArrayFalse ==
    /\ ArrayRule = "array_false"
    /\ ArrayCommit(array_value(ACur))

ArrayArray ==
    /\ ArrayRule = "array_array"
    /\ ArrayCommit(array_value(ACur))

ArrayMap ==
    /\ ArrayRule = "array_map"
    /\ ArrayCommit(array_value(ACur))

ArrayExprComma ==
    /\ ArrayRule = "array_expr_comma"
    /\ ArrayCommit(array_expr_comma(ACur))

ArrayExprLast ==
    /\ ArrayRule = "array_expr_last"
    /\ ArrayCommit(array_expr_last(ACur))

ArrayComma ==
    /\ ArrayRule = "array_comma"
    /\ ArrayCommit(array_comma(ACur))

ArrayUnexpected ==
    /\ ArrayRule = "array_unexpected"
    /\ ArrayEnd(array_unexpected(ACur))

ArrayNoRule ==
    /\ ArrayRule = "no_rule"
    /\ ArrayEnd(array_no_rule(ACur))

Next ==
    \/ EmptyObject \/ Root
    \/ Done \/ InsertNone \/ Insert \/ Unexpected \/ InsertLast
    \/ ValueNull \/ ValueTrue \/ ValueFalse \/ ValueArray \/ ValueMap
    \/ ExprComma \/ ExprLast
    \/ MissingValue \/ MissingColon \/ MisplacedColon
    \/ SampleNone \/ SampleJson \/ SampleCbor
    \/ ParenKey \/ Munch
    \/ EmptyArray \/ ArrayEnter \/ ArrayDoneComma \/ ArrayDone
    \/ ArrayNull \/ ArrayTrue \/ ArrayFalse \/ ArrayArray \/ ArrayMap
    \/ ArrayExprComma \/ ArrayExprLast \/ ArrayComma \/ ArrayUnexpected \/ ArrayNoRule

Spec == Init /\ [][Next]_vars

\* The compiler goes on expanding as long as a macro invocation is left.
FairSpec == Spec /\ WF_vars(Next)

\* The translation computed rule by rule agrees with the expansion as a whole.
StepwiseAgrees ==
    pc \in {"done", "error"} =>
        LET whole == IF top = "object" THEN coap(enc, Tokens)
                     ELSE parse(enc, <<Bracket(Tokens)>>) IN
        /\ whole.ok = (pc = "done")
        /\ whole.ops = ops
        /\ whole.err = err

\* ------------------------------------------------- notions the claims use

Last(seq) == seq[Len(seq)]
Front(seq) == SubSeq(seq, 1, Len(seq) - 1)
Prefixes(seq) == { SubSeq(seq, 1, i) : i \in 0..Len(seq) }

ValueKinds == {"field", "kwfield", "arrayfield", "mapfield", "parenfield"}

\* Entries of the grammar separated by commas; a comma may follow the last
\* `key: value` entry, and follows every key-only (sample) entry.
WellFormed(lit) ==
    \A i \in 1..Len(lit) :
        /\ lit[i].chunk.kind \in ValueKinds \cup {"sample"}
        /\ (i < Len(lit) \/ lit[i].chunk.kind = "sample") => lit[i].comma

\* Only `key: value` entries (n >= 1 of them).
AllFields(lit, kinds) ==
    /\ lit # <<>> /\ WellFormed(lit)
    /\ \A i \in 1..Len(lit) : lit[i].chunk.kind \in kinds

\* The key and the value tokens of a `key: value` entry.
FieldKey(e) == ExprVal(<<Head(e.chunk.toks)>>)
FieldValue(e) == ExprVal(From(e.chunk.toks, 3))

StartOps == {"StartRootObject", "StartArray", "StartObjectItem"}
EndOps == {"EndRootObject", "EndArray", "EndObjectItem"}
SetOps == {"SetInt", "SetTextString"}

Count(seq, kinds) == Len(SelectSeq(seq, LAMBDA op : op.op \in kinds))
Depth(seq) == Count(seq, StartOps) - Count(seq, EndOps)

\* The frame a Start*/End* operation opens or closes.
FrameOf(op) ==
    [kind |-> CASE op.op \in {"StartRootObject", "EndRootObject"} -> "root"
                [] op.op \in {"StartArray", "EndArray"} -> "array"
                [] OTHER -> "item",
     parent |-> op.parent, key |-> op.key]

\* Every End* of seq closes the most recently opened frame still open, given
\* the frames open before seq.
RECURSIVE LifoFrom(_, _)
LifoFrom(seq, open) ==
    IF seq = <<>> THEN TRUE
    ELSE IF Head(seq).op \in StartOps
    THEN LifoFrom(Tail(seq), Append(open, FrameOf(Head(seq))))
    ELSE IF Head(seq).op \in EndOps
    THEN /\ open # <<>> /\ Last(open) = FrameOf(Head(seq))
         /\ LifoFrom(Tail(seq), Front(open))
    ELSE LifoFrom(Tail(seq), open)

Encoded == enc \in {"json", "cbor"}

\* ------------------------------------------------------------------ claims

\* C1: for every well-formed literal and the Json and Cbor targets, at every
\* point of the emitted sequence each End* operation closes the most recently
\* opened frame that is still open.
C1_LifoClose == (Encoded /\ WellFormed(literal)) => LifoFrom(ops, <<>>)

\* A finished translation that opened and closed nested frames.
C1_Witness ==
    /\ Encoded /\ WellFormed(literal) /\ pc = "done"
    /\ Count(ops, {"EndObjectItem"}) >= 2 /\ Count(ops, {"EndRootObject"}) >= 1

\* C2: for every well-formed object literal and the Json and Cbor targets the
\* open-frame depth never goes below 0, and when the translation finishes the
\* depth is 0 and as many StartObjectItem as EndObjectItem were emitted.
C2_Balanced ==
    (Encoded /\ WellFormed(literal)) =>
        /\ \A pre \in Prefixes(ops) : Depth(pre) >= 0
        /\ pc = "done" =>
              /\ Depth(ops) = 0
              /\ Count(ops, {"StartObjectItem"}) = Count(ops, {"EndObjectItem"})

C2_Witness ==
    /\ Encoded /\ WellFormed(literal) /\ pc = "done"
    /\ Count(ops, {"StartObjectItem"}) >= 2

\* C3: for every non-empty well-formed object literal and the Json target the
\* sequence starts with StartRootObject, StartArray(root, values), ends with
\* EndArray(root, values), EndRootObject, and all other operations lie between
\* that StartArray and that EndArray.
C3_JsonValuesArray ==
    (enc = "json" /\ WellFormed(literal) /\ literal # <<>>) =>
        /\ pc # "start" =>
              /\ Len(ops) >= 2
              /\ ops[1] = Op("StartRootObject", "", "root", NoVal)
              /\ ops[2] = Op("StartArray", "root", "values", NoVal)
        /\ pc = "done" =>
              /\ Len(ops) >= 4
              /\ ops[Len(ops) - 1] = Op("EndArray", "root", "values", NoVal)
              /\ ops[Len(ops)] = Op("EndRootObject", "", "root", NoVal)
        /\ \A i \in 3..Len(ops) :
              ops[i].op \in {"StartRootObject", "StartArray", "EndArray", "EndRootObject"}
                  => pc = "done" /\ i >= Len(ops) - 1

C3_Witness ==
    /\ enc = "json" /\ WellFormed(literal) /\ pc = "done"
    /\ Count(ops, SetOps) >= 2

\* The "key" members written, in order.
ItemKeys(seq) ==
    SelectSeq(seq, LAMBDA op : op.op = "SetTextString" /\ op.key = "key")

\* C4: for an object literal of n >= 1 `key: value` fields and the Json target,
\* exactly n StartObjectItem/EndObjectItem pairs are emitted, one per field in
\* the literal's field order, with or without a comma after the last field.
C4_OneItemPerField ==
    (enc = "json" /\ AllFields(literal, ValueKinds) /\ pc = "done") =>
        /\ Count(ops, {"StartObjectItem"}) = Len(literal)
        /\ Count(ops, {"EndObjectItem"}) = Len(literal)
        /\ Len(ItemKeys(ops)) = Len(literal)
        /\ \A i \in 1..Len(literal) : ItemKeys(ops)[i].val = FieldKey(literal[i])

\* The member a `key: value` field is to be written with.
SetOpFor(val) == IF val.ty = "int" THEN "SetInt" ELSE "SetTextString"

ScalarKinds == {"field", "parenfield"}

\* C5: for the Json target, the item written for a `key: value` field holds a
\* "key" member written with SetTextString carrying the field's key, followed
\* by a "value" member written with SetInt for an integer value and with
\* SetTextString for a string value.
C5_JsonItemMembers ==
    (enc = "json" /\ AllFields(literal, ScalarKinds)) =>
        \A i \in 1..Len(ops) :
            ops[i].op = "StartObjectItem" =>
                /\ i + 2 <= Len(ops)
                /\ \E j \in 1..Len(literal) :
                      /\ ops[i + 1] = Op("SetTextString", "values", "key",
                                         FieldKey(literal[j]))
                      /\ ops[i + 2] = Op(SetOpFor(FieldValue(literal[j])), "values",
                                         "value", FieldValue(literal[j]))

\* C6: for the Cbor target every `key: value` field is one Set operation on the
\* root map under the field's own key, with no "values" array and no
\* StartObjectItem/EndObjectItem around it.
C6_CborFieldsAtRoot ==
    (enc = "cbor" /\ AllFields(literal, ScalarKinds)) =>
        \A i \in 1..Len(ops) :
            /\ ops[i].op \notin {"StartObjectItem", "EndObjectItem", "StartArray", "EndArray"}
            /\ ops[i].op \in SetOps =>
                  \E j \in 1..Len(literal) :
                      ops[i] = Op(SetOpFor(FieldValue(literal[j])), "root",
                                  FieldKey(literal[j]).s, FieldValue(literal[j]))

\* $val0.int_val of the sensor value a key-only entry names.
val_int_val(e) == Head(e.chunk.toks).n

\* C7: for the Json and Cbor targets the SetInt emitted for a key-only (sample)
\* entry carries the sample's own integer value.
C7_SampleValue ==
    (Encoded /\ AllFields(literal, {"sample"})) =>
        \A k \in 1..Count(ops, {"SetInt"}) :
            SelectSeq(ops, LAMBDA op : op.op = "SetInt")[k].val
                = IntVal(val_int_val(literal[k]))

\* The entries `key: [s1, s2],` of a literal.
SampleArrays(lit) ==
    { i \in 1..Len(lit) : lit[i].chunk.toks = <<Ident("a"), Colon, SampleArray>> /\ lit[i].comma }

\* C8: an array literal [s1, ..., sn] of bound samples used as a value under the
\* Json or Cbor target emits n object-array items, one per sample, each holding
\* a "key" member (the sample's key) and a "value" member.
C8_ArrayOfSamples ==
    (Encoded /\ WellFormed(literal) /\ pc = "done") =>
        \A k \in {"temp", "humid"} :
            Len(SelectSeq(ItemKeys(ops), LAMBDA op : op.val = StrVal(k)))
                >= Cardinality(SampleArrays(literal))

\* The literal ends with key tokens followed by a colon and no value.
EndsWithDanglingColon(lit) ==
    lit # <<>> /\ Last(lit).chunk.kind = "dangling_colon" /\ ~Last(lit).comma

MissingCommaAt(lit) ==
    LET at == { i \in 1..(Len(lit) - 1) :
                  /\ \A j \in 1..i : lit[j].chunk.kind \in ValueKinds \cup {"sample"}
                  /\ \A j \in 1..(i - 1) : lit[j].comma
                  /\ lit[i].chunk.kind \in ValueKinds /\ ~lit[i].comma
                  /\ lit[i + 1].chunk.kind \in ValueKinds }
    IN IF at = {} THEN 0 ELSE CHOOSE i \in at : TRUE

\* C10: for every target, a completed value of an object entry that a token
\* other than a comma follows (here the key of the next entry) makes the translation fail with a grammar error
\* that references that token, with no operation emitted for the entry.
C10_MissingComma ==
    MissingCommaAt(literal) > 0 =>
        /\ pc # "done"
        /\ pc = "error" =>
              /\ err.tok = Head(literal[MissingCommaAt(literal) + 1].chunk.toks)
              /\ Len(ops) = mark

\* Every entry before the i-th is well-formed and followed by its comma.
WellFormedBefore(lit, i) ==
    \A j \in 1..(i - 1) : lit[j].chunk.kind \in ValueKinds \cup {"sample"} /\ lit[j].comma

\* Some entry of the literal starts with a colon, after well-formed entries.
MisplacedColonEntry(lit) ==
    \E i \in 1..Len(lit) :
        lit[i].chunk.kind = "misplaced_colon" /\ WellFormedBefore(lit, i)

\* The muncher is at a colon with an empty key accumulator.
AtMisplacedColon == form = "paren" /\ key = <<>> /\ rest # <<>> /\ Head(rest) = Colon

\* C11: for every target, a colon met in the object state while the key
\* accumulator is empty (at the start of the object or right after the comma
\* that ended the previous entry) is rewritten by the misplaced-colon rule and
\* nothing else, the translation fails with "no rules expected the token `:`"
\* for that colon whatever tokens follow it, and the operations are as they
\* were when the entry began.
C11_MisplacedColon ==
    top = "object" =>
        /\ (pc = "object" /\ AtMisplacedColon) => Rule = "misplaced_colon"
        /\ (pc = "error" /\ AtMisplacedColon) =>
              /\ err = Err("misplaced_colon", "unexpected_token", Colon)
              /\ Len(ops) = mark
        /\ MisplacedColonEntry(literal) =>
              /\ pc # "done"
              /\ pc = "error" => AtMisplacedColon

\* The translation of {: a: 1} failed at the leading colon.
C11_Witness ==
    /\ top = "object" /\ Len(literal) = 2
    /\ literal[1].chunk.kind = "misplaced_colon" /\ literal[2].chunk.kind = "field"
    /\ pc = "error" /\ err.tok = Colon /\ Len(rest) > 1

\* The literal ends with a key-only entry that no comma follows, after
\* well-formed entries.
DanglingKey(lit) ==
    /\ lit # <<>> /\ Last(lit).chunk.kind = "sample" /\ ~Last(lit).comma
    /\ WellFormedBefore(lit, Len(lit))

\* The tokens of the object ended with a non-empty key accumulator.
AtDanglingKey == form = "paren" /\ key # <<>> /\ rest = <<>>

\* C12: for every target, when the tokens of the object end while the key
\* accumulator is non-empty and no colon follows, the missing-colon rule and
\* nothing else applies, the translation fails with a grammar error and the
\* operations are as they were when the entry began; a key-only entry that is
\* the last entry and has no trailing comma fails this way.
C12_DanglingKey ==
    top = "object" =>
        /\ (pc = "object" /\ AtDanglingKey) => Rule = "missing_colon"
        /\ (pc = "error" /\ AtDanglingKey) =>
              /\ err = Err("missing_colon", "end_of_invocation", NoTok)
              /\ Len(ops) = mark
        /\ DanglingKey(literal) =>
              /\ pc # "done"
              /\ pc = "error" => AtDanglingKey /\ key = Last(literal).chunk.toks

\* The translation of {a: 1, s1} under an encoder failed at the dangling key,
\* after the item of the first entry was emitted.
C12_Witness ==
    /\ top = "object" /\ Len(literal) = 2 /\ DanglingKey(literal) /\ Encoded
    /\ pc = "error" /\ err.rule = "missing_colon"
    /\ Count(ops, {"EndObjectItem"}) = 1

\* The expansion of the entries 1..n of lit as the entries of a whole object.
EntriesUpTo(e, lit, n) ==
    parse_object(NextEntry([enc |-> e, object |-> ObjectName(e)],
                           Flatten(SubSeq(lit, 1, n))))

\* C13: when the translation of an object literal fails with a grammar error,
\* it fails at some entry k such that the operations emitted are exactly the
\* target's opening operations followed by the operations the successful
\* translation of the entries 1..k-1 emits: nothing of the entries before k is
\* lost, and no operation of entry k or of a later entry has been emitted.
C13_FailureKeepsPriorEntriesOnly ==
    (top = "object" /\ pc = "error") =>
        \E k \in 1..Len(literal) :
            /\ EntriesUpTo(enc, literal, k - 1).ok
            /\ ops = root_start(enc) \o EntriesUpTo(enc, literal, k - 1).ops

\* C14: for every well-formed literal, the translation with the None target
\* records the sequence of encoder operations (kinds, keys, values, order) that
\* the translation with the Cbor target emits for that literal.
C14_NoneRecordsCborSequence ==
    (top = "object" /\ enc = "none" /\ WellFormed(literal) /\ pc = "done") =>
        /\ coap("cbor", Tokens).ok
        /\ Len(ops) = Len(coap("cbor", Tokens).ops)
        /\ \A i \in 1..Len(ops) :
              /\ ops[i].op = coap("cbor", Tokens).ops[i].op
              /\ ops[i].key = coap("cbor", Tokens).ops[i].key
              /\ ops[i].val = coap("cbor", Tokens).ops[i].val

\* The expansion of coap!(@e literal) as a whole: a function of the target and
\* of the literal.
Translate(e, t, lit) ==
    IF t = "object" THEN coap(e, Flatten(lit)) ELSE parse(e, <<Bracket(Flatten(lit))>>)

C16_CapacityErrorSurfaced ==
    (top = "object" /\ enc = "cbor") =>
        \A cap \in 0..MaxCapacity :
            Len(ops) > cap =>
                /\ pc = "error" /\ err.kind = "capacity"
                /\ Len(ops) = cap + 1

\* r2 is what is left of r1 after at least one token was taken from its front.
ProperSuffix(r2, r1) == Len(r2) < Len(r1) /\ r2 = From(r1, Len(r1) - Len(r2) + 1)

WellFormedArray(lit) ==
    \A i \in 1..Len(lit) :
        /\ lit[i].chunk.kind = "elem"
        /\ i < Len(lit) => lit[i].comma

\* The value tokens of the elements of an array literal, in its order.
ElementsOf(lit) == [i \in 1..Len(lit) |-> lit[i].chunk.toks]

\* C18: for every well-formed array literal and every target the array state
\* never fails, at every moment holds the first elements of the literal in
\* the literal's order, and ends holding one entry per element, [e1, .., en]
\* and [e1, .., en,] alike.
C18_ArrayElementsInOrder ==
    (top = "array" /\ WellFormedArray(literal)) =>
        /\ pc # "error"
        /\ elems = SubSeq(ElementsOf(literal), 1, Len(elems))
        /\ pc = "done" => elems = ElementsOf(literal)

\* The array state finished on two elements with a trailing comma, the first
\* of them a keyword element.
C18_Witness ==
    /\ top = "array" /\ WellFormedArray(literal) /\ pc = "done"
    /\ Len(literal) = 2 /\ literal[2].comma /\ literal[1].chunk.toks = <<Keyword("null")>>
    /\ Len(elems) = 2

\* Every End* of an array or of an object item in seq names the parent encoder
\* and the child encoder that the Start* it closes named, given the Start*
\* operations open before seq.
RECURSIVE EncodersAgree(_, _)
EncodersAgree(seq, open) ==
    IF seq = <<>> THEN TRUE
    ELSE IF Head(seq).op \in StartOps
    THEN EncodersAgree(Tail(seq), Append(open, Head(seq)))
    ELSE IF Head(seq).op \in EndOps
    THEN /\ open # <<>>
         /\ Head(seq).op \in {"EndArray", "EndObjectItem"} =>
                /\ Head(seq).penc = Last(open).penc
                /\ Head(seq).cenc = Last(open).cenc
         /\ EncodersAgree(Tail(seq), Front(open))
    ELSE EncodersAgree(Tail(seq), open)

\* C19: with the Cbor target, every close call of an array or of an object
\* item names the same parent encoder and the same child encoder as the
\* create call of the frame it closes.
C19_EndReferencesStartFrame ==
    (enc = "cbor" /\ WellFormed(literal)) => EncodersAgree(ops, <<>>)

\* C20: every finished translation of an object literal with the Json or the
\* Cbor target recorded StartRootObject exactly once, as its first operation,
\* and EndRootObject exactly once, as its last operation; the empty literal
\* and literals with nested object literals as field values included.
C20_SingleRoot ==
    (top = "object" /\ Encoded /\ pc = "done") =>
        /\ ops # <<>>
        /\ Head(ops).op = "StartRootObject"
        /\ Last(ops).op = "EndRootObject"
        /\ Count(ops, {"StartRootObject"}) = 1
        /\ Count(ops, {"EndRootObject"}) = 1

\* The muncher holds the one identifier of a sample as key and is at the comma
\* that follows it.
AtSampleComma ==
    /\ pc = "object" /\ form = "paren" /\ rest # <<>> /\ Head(rest) = Comma
    /\ Len(key) = 1 /\ key[1].t = "ident"

\* C21: under the Json target, the step that takes a key-only (sample) entry
\* followed by a comma appends exactly StartObjectItem, SetTextString of
\* member "key" with the sample's key, SetInt of member "value",
\* EndObjectItem, and a finished translation of n such entries holds n items.
C21_JsonSampleItem ==
    /\ [][(enc = "json" /\ AtSampleComma) =>
            /\ Len(ops') = Len(ops) + 4
            /\ SubSeq(ops', 1, Len(ops)) = ops
            /\ ops'[Len(ops) + 1].op = "StartObjectItem"
            /\ ops'[Len(ops) + 2] = Op("SetTextString", "values", "key",
                                      StrVal(SensorKey(key[1].s)))
            /\ ops'[Len(ops) + 3].op = "SetInt"
            /\ ops'[Len(ops) + 3].key = "value"
            /\ ops'[Len(ops) + 4].op = "EndObjectItem"]_vars
    /\ [](enc = "json" /\ AllFields(literal, {"sample"}) /\ pc = "done" =>
            /\ Count(ops, {"StartObjectItem"}) = Len(literal)
            /\ Len(ops) = 4 * Len(literal) + 4)

\* A finished Json translation of two sample entries.
C21_Witness ==
    /\ enc = "json" /\ AllFields(literal, {"sample"}) /\ Len(literal) = 2
    /\ pc = "done" /\ Count(ops, {"SetInt"}) = 2

\* The kind of an operation, and for a Set* the member key it writes.
KindAndKey(op) == <<op.op, IF op.op \in SetOps THEN op.key ELSE "">>

\* The kinds and keys of seq from its (n+1)-th operation to its (n+1)-th from
\* the end, in order.
InnerKinds(seq, n) == [i \in 1..(Len(seq) - 2 * n) |-> KindAndKey(seq[i + n])]

\* C22: for every non-empty well-formed object literal, the operations the
\* Json target emits between StartArray(root, values) and EndArray(root,
\* values) have the same kinds, keys and order as those the Cbor target emits
\* between StartRootObject and EndRootObject.
C22_BackendsReceiveSameOps ==
    (top = "object" /\ enc = "json" /\ WellFormed(literal) /\ literal # <<>>
        /\ pc = "done") =>
        /\ coap("cbor", Tokens).ok
        /\ InnerKinds(ops, 2) = InnerKinds(coap("cbor", Tokens).ops, 1)

\* C23: in every run, once EndRootObject has been emitted the translation has
\* finished with every entry accepted: a translation that ends in a grammar
\* error has emitted no EndRootObject.
C23_NoRootCloseOnError ==
    (top = "object" /\ pc = "error") => Count(ops, {"EndRootObject"}) = 0

\* C24: for every literal, the translation is rejected with a grammar error
\* under one target if and only if it is rejected under each of the other
\* targets, and then at the same token.
C24_GrammarTargetIndependent ==
    pc \in {"done", "error"} =>
        \A e \in Encodings :
            /\ Translate(e, top, literal).ok = (pc = "done")
            /\ Translate(e, top, literal).err.tok = err.tok

\* Some entry of the literal is a comma with no key before it, after
\* well-formed entries: a leading comma or the second of two commas.
EmptyKeyEntry(lit) ==
    \E i \in 1..Len(lit) : lit[i].chunk.kind = "empty" /\ WellFormedBefore(lit, i)

\* The muncher is at a comma with an empty key accumulator.
AtEmptyKeyComma == form = "paren" /\ key = <<>> /\ rest # <<>> /\ Head(rest) = Comma

\* C25: for every target, a comma met in the object state while the key
\* accumulator is empty ends the translation in a grammar error at that comma
\* with the operations as they were when the entry began: a literal with a
\* leading comma or two consecutive commas never finishes.
C25_EmptyKeyRejected ==
    top = "object" =>
        /\ (pc = "error" /\ AtEmptyKeyComma) => Len(ops) = mark
        /\ EmptyKeyEntry(literal) =>
              /\ pc # "done"
              /\ pc = "error" => AtEmptyKeyComma

\* Every element before the i-th is followed by its comma.
ElementsBefore(lit, i) ==
    \A j \in 1..(i - 1) : lit[j].chunk.kind = "elem" /\ lit[j].comma

\* Some comma of the array literal has no element directly before it: the
\* literal starts with a comma or contains two consecutive commas.
CommaWithoutElement(lit) ==
    \E i \in 1..Len(lit) : lit[i].chunk.kind = "empty" /\ ElementsBefore(lit, i)

\* The first element that is followed, without a comma, by a token that does
\* not continue it as an expression (0: none).
ElementThenTokenAt(lit) ==
    LET at == { i \in 1..(Len(lit) - 1) :
                  /\ ElementsBefore(lit, i)
                  /\ lit[i].chunk.kind = "elem" /\ ~lit[i].comma
                  /\ lit[i + 1].chunk.kind = "elem"
                  /\ ExprLen(lit[i].chunk.toks \o lit[i + 1].chunk.toks) = 1 }
    IN IF at = {} THEN 0 ELSE CHOOSE i \in at : TRUE

\* C26: an array literal that starts with a comma or contains two consecutive
\* commas is rejected, and an array literal in which a token other than a comma
\* follows an element is rejected with an error at that token.
C26_ArrayCommaAfterElementOnly ==
    top = "array" =>
        /\ CommaWithoutElement(literal) => pc # "done"
        /\ ElementThenTokenAt(literal) > 0 =>
              /\ pc # "done"
              /\ pc = "error" =>
                    err.tok = Head(literal[ElementThenTokenAt(literal) + 1].chunk.toks)

\* The frame an operation names together with the encoders its call names.
NamedFrame(op) == <<FrameOf(op), op.penc, op.cenc>>

\* No end_* call of seq that names another frame than the most recently opened
\* frame still open was performed, given the Start* operations open before
\* seq; open holds the frames left open.
RECURSIVE NoMismatchedEnd(_, _)
NoMismatchedEnd(seq, open) ==
    IF seq = <<>> THEN TRUE
    ELSE IF Head(seq).op \in StartOps
    THEN NoMismatchedEnd(Tail(seq), Append(open, Head(seq)))
    ELSE IF Head(seq).op \in EndOps
    THEN /\ open # <<>>
         /\ NamedFrame(Head(seq)) = NamedFrame(Last(open))
         /\ NoMismatchedEnd(Tail(seq), Front(open))
    ELSE NoMismatchedEnd(Tail(seq), open)

\* C27: an end_* call whose frame is not the most recently opened frame still
\* open is rejected with a structural error and leaves the output unchanged:
\* the operations performed never hold such a call, for any literal and target.
C27_MismatchedEndRejected == NoMismatchedEnd(ops, <<>>)

\* Every close call of seq closes the container opened last and still open,
\* naming its child encoder, and no container is left open, given the create
\* calls open before seq.
RECURSIVE ClosedOnce(_, _)
ClosedOnce(seq, open) ==
    IF seq = <<>> THEN open = <<>>
    ELSE IF Head(seq).op \in StartOps
    THEN ClosedOnce(Tail(seq), Append(open, Head(seq)))
    ELSE IF Head(seq).op \in EndOps
    THEN /\ open # <<>>
         /\ FrameOf(Head(seq)) = FrameOf(Last(open))
         /\ Head(seq).cenc = Last(open).cenc
         /\ ClosedOnce(Tail(seq), Front(open))
    ELSE ClosedOnce(Tail(seq), open)

\* C28: with the Cbor target every container is created with indefinite
\* length, and when a translation finishes every container it opened has been
\* closed by exactly one close call.
C28_CborIndefiniteClosedOnce ==
    (top = "object" /\ enc = "cbor") =>
        /\ \A i \in 1..Len(ops) :
              ops[i].op \in StartOps => ops[i].len = "CborIndefiniteLength"
        /\ pc = "done" => ClosedOnce(ops, <<>>)

\* A finished Cbor translation that opened the root map and two item maps.
C28_Witness ==
    /\ top = "object" /\ enc = "cbor" /\ pc = "done"
    /\ Count(ops, {"StartRootObject"}) = 1 /\ Count(ops, {"StartObjectItem"}) = 2

\* The create calls of seq whose containers are still open after seq, oldest
\* first, given those open before seq.
RECURSIVE OpenFrames(_, _)
OpenFrames(seq, open) ==
    IF seq = <<>> THEN open
    ELSE IF Head(seq).op \in StartOps
    THEN OpenFrames(Tail(seq), Append(open, Head(seq)))
    ELSE IF Head(seq).op \in EndOps /\ open # <<>>
    THEN OpenFrames(Tail(seq), Front(open))
    ELSE OpenFrames(Tail(seq), open)

\* The frames of open are named by pairwise distinct child encoders.
DistinctNames(open) ==
    \A i, j \in 1..Len(open) : i # j => open[i].cenc # open[j].cenc

\* C29: at every point of a Cbor translation the frames open at the same time
\* are named by pairwise distinct encoders: the child encoder of an object
\* item under the root is not the encoder of the root map.
C29_OpenFramesDistinct ==
    (top = "object" /\ enc = "cbor") =>
        \A pre \in Prefixes(ops) : DistinctNames(OpenFrames(pre, <<>>))

====
